---- MODULE Spec2Model ----
(***************************************************************************)
(* Model of the ingestion-and-reconciliation engine of data_harbour:       *)
(* src/logic.py (header location, product partitioning, store writes,      *)
(* payment classification, federated evaluation) and the handlers of       *)
(* src/app.py that drive it (process_files, run_sql_query).                *)
(*                                                                         *)
(* Text values (cells, tokens, product codes) are sequences of one-letter  *)
(* strings so that strip / upper / lower / slicing are computed.           *)
(* An empty cell is <<>>: pandas reads an empty CSV field as NaN.          *)
(***************************************************************************)
EXTENDS Integers, Sequences, FiniteSets, TLC

VARIABLES
    stores,          \* working directory: product code -> store file state
    last,            \* observable record of the latest call (result, error, trace)
    CASE_SENSITIVE,  \* src/logic.py:19, fixed at start-up
    cls,             \* one joined row under classification (SpecClassify)
    rd               \* one file under the two readers (SpecFiles)

vars == <<stores, last, CASE_SENSITIVE, cls, rd>>

-----------------------------------------------------------------------------
(* Bounds of the model                                                     *)

MaxQueries == 2      \* rows kept in one store's `queries` table
TicksPerDay == 2     \* time-of-day resolution of a timestamp
MaxDay == 8          \* calendar days drawn for the classification inputs
MaxRepeat == 2       \* consecutive ingests of one pair that are told apart
MaxBeyond == 2       \* data rows of a file beyond the shortest ones drawn

(* Program constants                                                       *)

GRACE_DAYS == 3
SAMPLE_ROWS == 20

SKIP_ROWS == <<0, 1, 2, 3, 5, 10>>

\* A column name is a sequence of pieces; " " is a space between words.
LEAD_ID_COL == <<"Lead", "ID">>
REPAYMENT_DATE_COL == <<"Repay", "Date">>
COLLECTION_DATE_COL == <<"Collected", "Date">>
LOAN_NO_COL == <<"Loan", "No">>
TARGET_COLUMN == <<"Pancard">>

REQUIRED_DISBURSED_COLS ==
    {TARGET_COLUMN, LOAN_NO_COL, LEAD_ID_COL, REPAYMENT_DATE_COL}

REQUIRED_COLLECTION_COLS ==
    {LOAN_NO_COL, LEAD_ID_COL, COLLECTION_DATE_COL}

-----------------------------------------------------------------------------
(* Text                                                                    *)

RECURSIVE LStrip(_)
LStrip(s) == IF s # <<>> /\ Head(s) = " " THEN LStrip(Tail(s)) ELSE s

RECURSIVE RStrip(_)
RStrip(s) ==
    IF s # <<>> /\ s[Len(s)] = " " THEN RStrip(SubSeq(s, 1, Len(s) - 1)) ELSE s

Strip(s) == RStrip(LStrip(s))

UpperChar(ch) ==
    CASE ch = "a" -> "A"
      [] ch = "b" -> "B"
      [] ch = "p" -> "P"
      [] OTHER -> ch

LowerChar(ch) ==
    CASE ch = "A" -> "a"
      [] ch = "B" -> "b"
      [] ch = "P" -> "p"
      [] OTHER -> ch

Upper(s) == [i \in 1..Len(s) |-> UpperChar(s[i])]
Lower(s) == [i \in 1..Len(s) |-> LowerChar(s[i])]

Min(a, b) == IF a <= b THEN a ELSE b

-----------------------------------------------------------------------------
(* Timestamps.  A date cell is text; pd.to_datetime(errors="coerce") turns *)
(* it into a timestamp (day and time of day) or NaT.                       *)

NaT == -1
NoDate == -1

DateCell(day, tick) == [ok |-> TRUE, day |-> day, tick |-> tick]
BadCell == [ok |-> FALSE, day |-> 0, tick |-> 0]

to_datetime(cell) ==
    IF cell.ok THEN cell.day * TicksPerDay + cell.tick ELSE NaT

isna(ts) == ts = NaT

\* Timestamp.date()
date(ts) == ts \div TicksPerDay

\* Timedelta.days of a non-negative difference
days(delta) == delta \div TicksPerDay

-----------------------------------------------------------------------------
(* Flat files.  A file is its header line (preceded by `header` metadata   *)
(* lines; -1 when it has no header line), the raw header cells, the data   *)
(* rows below the header, the 1-based index `bad` of a data row with more  *)
(* fields than the header (0: none), and `ragged`: some line has more      *)
(* fields than the first line, which makes a headerless parse raise.       *)

DRow(pan, loan, lead, repay) ==
    [Pancard |-> pan, LoanNo |-> loan, LeadID |-> lead, RepayDate |-> repay]

CRow(loan, lead, collected) ==
    [LoanNo |-> loan, LeadID |-> lead, CollectedDate |-> collected]

File(name, header, rawcols, rows, bad, ragged) ==
    [name |-> name, header |-> header, rawcols |-> rawcols, rows |-> rows,
     bad |-> bad, ragged |-> ragged]

P1 == <<"P", "1">>
P2 == <<"P", "2">>
L1 == <<"L", "1">>
L2 == <<"L", "2">>
L3 == <<"L", "3">>

AAA == <<"A", "A", "A">>
BBB == <<"B", "B", "B">>
Products == {AAA, BBB}

DisbursedHeader ==
    <<<<"Pancard">>, <<"Loan", " ", "No">>, <<"Lead", " ", "ID">>,
      <<" ", "Repay", " ", "Date", " ">>>>

CollectionHeader ==
    <<<<"Loan", "No">>, <<"Lead", "ID">>, <<"Collected", " ", "Date">>>>

Repeat(row, n) == [i \in 1..n |-> row]

p1 == <<"p", "1">>

D_A1 ==
    File("D_A1", 0, DisbursedHeader,
         <<DRow(P1, <<"a", "a", "a", "1">>, L1, DateCell(3, 0))>>, 0, FALSE)

\* two metadata lines, then the header; the batch holds one row twice
D_A2 ==
    File("D_A2", 2, DisbursedHeader,
         Repeat(DRow(p1, <<" ", "A", "A", "A", "3">>, L3, BadCell), 2),
         0, FALSE)

\* header on the fifth line: only the fallback search finds it
D_B1 ==
    File("D_B1", 4, DisbursedHeader,
         <<DRow(P1, <<"x">>, <<>>, BadCell),
           DRow(P1, <<"b", "b", "b", "1">>, L1, DateCell(3, 1)),
           DRow(P2, <<"b", "b", "b", "2">>, L2, DateCell(3, 0))>>, 0, FALSE)

\* no loan number of length >= 3 within the sample
D_LATE ==
    File("D_LATE", 0, DisbursedHeader,
         Repeat(DRow(P1, <<"a", "b", " ">>, L1, DateCell(3, 0)), SAMPLE_ROWS)
           \o <<DRow(P1, <<"a", "a", "a", "9">>, L1, DateCell(3, 0))>>,
         0, FALSE)

\* a malformed row just beyond the sample
D_BAD ==
    File("D_BAD", 0, DisbursedHeader,
         Repeat(DRow(P1, <<"a", "a", "a", "1">>, L1, DateCell(3, 0)),
                SAMPLE_ROWS + 1),
         SAMPLE_ROWS + 1, TRUE)

D_NOHDR ==
    File("D_NOHDR", -1, <<>>,
         <<DRow(P1, <<"a", "a", "a", "1">>, L1, DateCell(3, 0))>>, 0, FALSE)

C_A1 ==
    File("C_A1", 0, CollectionHeader,
         <<CRow(<<"a", "a", "a", "1">>, L1, DateCell(3, 1)),
           CRow(<<"a", "a", "a", "1">>, L1, DateCell(2, 1)),
           CRow(<<"a", "a", "a", "3">>, L3, DateCell(7, 0))>>, 0, FALSE)

C_A2 ==
    File("C_A2", 1, CollectionHeader,
         <<CRow(<<>>, L3, DateCell(7, 0)),
           CRow(<<"A", "A", "A", "3">>, L3, DateCell(6, 1)),
           CRow(<<"A", "A", "A", "1">>, L1, DateCell(3, 1))>>, 0, FALSE)

C_B1 ==
    File("C_B1", 0, CollectionHeader,
         <<CRow(<<"B", "B", "B", "1">>, L1, BadCell),
           CRow(<<"B", "B", "B", "1">>, L1, DateCell(3, 1)),
           CRow(<<"B", "B", "B", "2">>, L2, BadCell)>>, 0, FALSE)

C_NOCOL ==
    File("C_NOCOL", 0, <<<<"Loan", "No">>, <<"Lead", "ID">>>>,
         <<CRow(<<"b", "b", "b", "1">>, L1, BadCell)>>, 0, FALSE)

\* the pairs of files the user selects for one ingest
Uploads ==
    { <<D_A1, C_A1>>, <<D_A2, C_A2>>, <<D_B1, C_B1>>, <<D_A1, C_B1>>,
      <<D_BAD, C_A1>>, <<D_LATE, C_A1>>, <<D_NOHDR, C_A1>>,
      <<D_B1, C_NOCOL>> }

-----------------------------------------------------------------------------
(* Header Locator                                                          *)

RECURSIVE DropSpaces(_)
DropSpaces(col) ==
    IF col = <<>> THEN <<>>
    ELSE IF Head(col) = " " THEN DropSpaces(Tail(col))
    ELSE <<Head(col)>> \o DropSpaces(Tail(col))

\* df.columns.str.strip().str.replace(" ", "")
normalize_headers(rawcols) ==
    {DropSpaces(rawcols[i]) : i \in 1..Len(rawcols)}

NoLimit == -1

Frame(ok, cols, rows) == [ok |-> ok, cols |-> cols, rows |-> rows]
NoFrame == Frame(FALSE, {}, <<>>)

\* pd.read_csv(path, dtype=str, skiprows=skiprows[, nrows=nrows]) followed by
\* normalize_headers and the check for the two identifier columns; a parse
\* error or a failed check both make the caller try the next skip count.
parsed_frame(f, n, cols) ==
    IF f.bad \in 1..n THEN NoFrame
    ELSE IF {LEAD_ID_COL, LOAN_NO_COL} \subseteq cols
         THEN Frame(TRUE, cols, SubSeq(f.rows, 1, n))
         ELSE NoFrame

read_csv_at(f, skiprows, nrows) ==
    IF skiprows # f.header THEN NoFrame
    ELSE parsed_frame(f,
                      IF nrows = NoLimit THEN Len(f.rows)
                      ELSE Min(nrows, Len(f.rows)),
                      normalize_headers(f.rawcols))

\* the loop over the skip counts: the first attempt that yields the two
\* identifier columns is returned
RECURSIVE try_skips(_, _, _)
first_valid(df, f, i, nrows) ==
    IF df.ok THEN df ELSE try_skips(f, i + 1, nrows)

try_skips(f, i, nrows) ==
    IF i > Len(SKIP_ROWS) THEN NoFrame
    ELSE first_valid(read_csv_at(f, SKIP_ROWS[i], nrows), f, i, nrows)

\* Fallback: headerless parse of the whole file, first row holding a cell
\* "LeadID" or "Lead ID", re-parse from that row.
fallback_search(f, nrows) ==
    IF f.ragged \/ f.header < 0 THEN NoFrame
    ELSE IF \E i \in 1..Len(f.rawcols) :
                f.rawcols[i] \in {LEAD_ID_COL, <<"Lead", " ", "ID">>}
         THEN read_csv_at(f, f.header, nrows)
         ELSE NoFrame

or_fallback(df, f, nrows) ==
    IF df.ok THEN df ELSE fallback_search(f, nrows)

locate(f, nrows) == or_fallback(try_skips(f, 1, nrows), f, nrows)

read_csv_flexible(f) == locate(f, SAMPLE_ROWS)

read_full_csv_flexible(f) == locate(f, NoLimit)

-----------------------------------------------------------------------------
(* Schema Validator and Product Partitioner                                *)

\* the missing columns; validate_columns raises when the set is not empty
validate_columns(df, required) == required \ df.cols

NoCode == <<>>

RECURSIVE get_first_product(_)
product_of(val, clean_val, rest) ==
    IF val # <<>> /\ Len(clean_val) >= 3
    THEN Upper(SubSeq(clean_val, 1, 3))
    ELSE get_first_product(rest)

\* for val in df[col].dropna(): first value of trimmed length >= 3
get_first_product(rows) ==
    IF rows = <<>> THEN NoCode
    ELSE product_of(Head(rows).LoanNo, Strip(Head(rows).LoanNo), Tail(rows))

-----------------------------------------------------------------------------
(* Product stores: one SQLite file per product code in the working         *)
(* directory, holding the tables disbursed, collection and queries.        *)

Table(present, rows) == [present |-> present, rows |-> rows]
NoTable == Table(FALSE, <<>>)

Store(exists, disbursed, collection, queries) ==
    [exists |-> exists, disbursed |-> disbursed, collection |-> collection,
     queries |-> queries]

NoStore == Store(FALSE, NoTable, NoTable, NoTable)

\* sqlite3.connect(db_path): the file is created, empty, when it is missing
connect(store) == [store EXCEPT !.exists = TRUE]

\* faulty variant: the batch is added to the table instead of replacing it
to_sql_replace_adding(table, rows) == Table(TRUE, table.rows \o rows)

\* DataFrame.to_sql(name, conn, if_exists="replace", index=False)
to_sql_replace(table, rows) == Table(TRUE, rows)

\* DataFrame.to_sql(name, conn, if_exists="append", index=False)
to_sql_append(table, rows) == Table(TRUE, table.rows \o rows)

\* What a to_sql(if_exists="replace") that raises leaves behind: the old
\* table (failure before the DROP) or no table (the DROP is committed on
\* its own, before the CREATE and the INSERT).
Lefts == {"old", "dropped"}

failed_replace(table, left) ==
    IF left = "old" THEN table ELSE NoTable

\* Faults of the storage engine during one ingest (StoreIOError)
Faults == {"none", "connect", "write_disbursed", "write_collection"}

\* a fault together with what a failed write leaves behind
FaultChoices ==
    {<<"none", "old">>, <<"connect", "old">>}
      \cup ({"write_disbursed", "write_collection"} \X Lefts)

Ingested(outcome, codes, product, st, opened) ==
    [outcome |-> outcome, codes |-> codes, product |-> product, stores |-> st,
     opened |-> opened]

\* lines 181-193: the full reads, then the two table writes
load_tables(product_name, codes, full_disbursed, full_collection, conn, fault, left, st) ==
    IF ~full_disbursed.ok \/ ~full_collection.ok
    THEN Ingested("CouldNotParseFull", codes, product_name,
                  [st EXCEPT ![product_name] = conn], <<product_name>>)
    ELSE IF fault = "write_disbursed"
    THEN Ingested("StoreIOError", codes, product_name,
                  [st EXCEPT ![product_name] =
                     [conn EXCEPT !.disbursed = failed_replace(@, left)]],
                  <<product_name>>)
    ELSE IF fault = "write_collection"
    THEN Ingested("StoreIOError", codes, product_name,
                  [st EXCEPT ![product_name] =
                     [conn EXCEPT
                        !.disbursed = to_sql_replace(@, full_disbursed.rows),
                        !.collection = failed_replace(@, left)]],
                  <<product_name>>)
    ELSE Ingested("ok", codes, product_name,
                  [st EXCEPT ![product_name] =
                     [conn EXCEPT
                        !.disbursed = to_sql_replace(@, full_disbursed.rows),
                        !.collection =
                            to_sql_replace(@, full_collection.rows)]],
                  <<product_name>>)

\* faulty variant: the store of the disbursement code is opened before the
\* two codes are compared
check_products_after_connect(disbursed_product, collection_product, d, c, fault, left, st) ==
    IF disbursed_product = NoCode \/ collection_product = NoCode
    THEN Ingested("NoValidProductCode", <<>>, NoCode, st, <<>>)
    ELSE IF disbursed_product # collection_product
    THEN Ingested("ProductMismatch",
                  <<disbursed_product, collection_product>>, NoCode,
                  [st EXCEPT ![disbursed_product] = connect(@)],
                  <<disbursed_product>>)
    ELSE IF fault = "connect"
    THEN Ingested("StoreIOError", <<disbursed_product, collection_product>>,
                  disbursed_product, st, <<>>)
    ELSE load_tables(disbursed_product,
                     <<disbursed_product, collection_product>>,
                     read_full_csv_flexible(d), read_full_csv_flexible(c),
                     connect(st[disbursed_product]), fault, left, st)

\* lines 165-179: the two derived codes must agree; then the store is opened
check_products(disbursed_product, collection_product, d, c, fault, left, st) ==
    IF disbursed_product = NoCode \/ collection_product = NoCode
    THEN Ingested("NoValidProductCode", <<>>, NoCode, st, <<>>)
    ELSE IF disbursed_product # collection_product
    THEN Ingested("ProductMismatch",
                  <<disbursed_product, collection_product>>, NoCode, st, <<>>)
    ELSE IF fault = "connect"
    THEN Ingested("StoreIOError", <<disbursed_product, collection_product>>,
                  disbursed_product, st, <<>>)
    ELSE load_tables(disbursed_product,
                     <<disbursed_product, collection_product>>,
                     read_full_csv_flexible(d), read_full_csv_flexible(c),
                     connect(st[disbursed_product]), fault, left, st)

\* lines 152-166: validation of the two samples, product of each sample
check_samples(disbursed_df, collection_df, d, c, fault, left, st) ==
    IF ~disbursed_df.ok \/ ~collection_df.ok
    THEN Ingested("HeaderNotFound", <<>>, NoCode, st, <<>>)
    ELSE IF validate_columns(disbursed_df, REQUIRED_DISBURSED_COLS) # {}
            \/ validate_columns(collection_df, REQUIRED_COLLECTION_COLS) # {}
    THEN Ingested("MissingColumns", <<>>, NoCode, st, <<>>)
    ELSE check_products(get_first_product(disbursed_df.rows),
                        get_first_product(collection_df.rows),
                        d, c, fault, left, st)

\* process_uploaded_files(disbursed_path, collection_path) on the stores st
process_uploaded_files(d, c, fault, left, st) ==
    check_samples(read_csv_flexible(d), read_csv_flexible(c),
                  d, c, fault, left, st)

-----------------------------------------------------------------------------
(* The observable record of a call                                         *)

NoCall ==
    [op |-> "none", outcome |-> "none", files |-> <<>>, token |-> <<>>,
     codes |-> <<>>, product |-> NoCode, listed |-> FALSE, order |-> <<>>,
     opened |-> <<>>, closed |-> <<>>, raised |-> {},
     batch |-> [p \in Products |-> <<>>], table |-> <<>>, total |-> 0,
     nth |-> 0]

\* PaymentApp.process_files: ingest the two selected files, close the
\* returned connection; an error is shown and nothing is closed.
show_ingest(d, c, r) ==
    /\ stores' = r.stores
    /\ last' = [NoCall EXCEPT
                  !.op = "ingest", !.outcome = r.outcome,
                  !.files = IF r.outcome = "ok" THEN <<d.name, c.name>>
                            ELSE <<>>,
                  !.codes = r.codes,
                  !.product = r.product, !.opened = r.opened,
                  !.closed = IF r.outcome = "ok" THEN r.opened ELSE <<>>,
                  !.nth = IF r.outcome # "ok" THEN 0
                          ELSE IF last.files = <<d.name, c.name>>
                          THEN Min(last.nth + 1, MaxRepeat)
                          ELSE 1]
    /\ UNCHANGED <<CASE_SENSITIVE, cls, rd>>

process_files(d, c, fault, left) ==
    show_ingest(d, c, process_uploaded_files(d, c, fault, left, stores))

-----------------------------------------------------------------------------
(* Payment Reconciliation Engine                                           *)

\* WHERE Pancard = ?  /  WHERE LOWER(Pancard) = LOWER(?); NULL matches nothing
pan_matches(row, value) ==
    /\ row.Pancard # <<>>
    /\ IF CASE_SENSITIVE THEN row.Pancard = value
       ELSE Lower(row.Pancard) = Lower(value)

MaxOf(S) == CHOOSE x \in S : \A y \in S : y <= x

\* faulty variant: the group is reduced to its earliest date
max_date_earliest(valid) ==
    IF valid = {} THEN NaT
    ELSE CHOOSE x \in valid : \A y \in valid : x <= y

\* collection_df.groupby(lead)[date].max() left-joined on the lead id:
\* NaT when the lead has no collection row or none with a parsable date;
\* rows with a null lead id belong to no group.
max_date(valid) == IF valid = {} THEN NaT ELSE MaxOf(valid)

latest_collection(lead, collection_rows) ==
    max_date({to_datetime(collection_rows[i].CollectedDate) :
                i \in {j \in 1..Len(collection_rows) :
                         /\ lead # <<>>
                         /\ collection_rows[j].LeadID = lead}} \ {NaT})

\* faulty variant: a delay that cannot be computed counts as within grace
PaymentStatus_nan_in_grace(repay_date, collect_date) ==
    IF isna(collect_date) THEN "NOT_COLLECTED"
    ELSE IF ~isna(repay_date) /\ collect_date < repay_date THEN "EARLY"
    ELSE IF ~isna(repay_date) /\ collect_date = repay_date THEN "ON_TIME"
    ELSE IF isna(repay_date)
            \/ days(collect_date - repay_date) <= GRACE_DAYS
    THEN "COOLING_PERIOD"
    ELSE "LATE"

\* The status branch of the row loop.  A comparison with NaT is False and
\* (collect_date - NaT).days is nan, so nan <= GRACE_DAYS is False as well.
PaymentStatus(repay_date, collect_date) ==
    IF isna(collect_date) THEN "NOT_COLLECTED"
    ELSE IF ~isna(repay_date) /\ collect_date < repay_date THEN "EARLY"
    ELSE IF ~isna(repay_date) /\ collect_date = repay_date THEN "ON_TIME"
    ELSE IF ~isna(repay_date)
            /\ days(collect_date - repay_date) <= GRACE_DAYS
    THEN "COOLING_PERIOD"
    ELSE "LATE"

record(pan_value, lead, repay_date, collect_date) ==
    [pan |-> pan_value,
     LeadID |-> lead,
     RepayDate |-> IF isna(repay_date) THEN NoDate ELSE date(repay_date),
     CollectionDate |->
         IF isna(collect_date) THEN NoDate ELSE date(collect_date),
     PaymentStatus |-> PaymentStatus(repay_date, collect_date)]

result_record(pan_value, row, collection_rows) ==
    record(pan_value, row.LeadID, to_datetime(row.RepayDate),
           latest_collection(row.LeadID, collection_rows))

Evaluated(raised, rows, store) ==
    [raised |-> raised, rows |-> rows, store |-> store]

\* faulty variant: the result rows replace the audit table
save_results_replacing(queries, rows) == to_sql_replace(queries, rows)

\* to_sql("queries", if_exists="append") of the result rows
save_results(queries, rows) == to_sql_append(queries, rows)

\* evaluate_payment_status_for_conn(pan_value, conn) on one store;
\* append_fails: the storage engine raises while appending to `queries`.
save_and_return(rows, store, append_fails) ==
    IF append_fails THEN Evaluated(TRUE, <<>>, store)
    ELSE Evaluated(FALSE, rows,
                   [store EXCEPT !.queries = save_results(@, rows)])

join_and_classify(pan_value, disbursed_pan, store, append_fails) ==
    IF disbursed_pan = <<>> THEN Evaluated(FALSE, <<>>, store)
    ELSE IF ~store.collection.present THEN Evaluated(TRUE, <<>>, store)
    ELSE save_and_return(
             [i \in 1..Len(disbursed_pan) |->
                result_record(pan_value, disbursed_pan[i],
                              store.collection.rows)],
             store, append_fails)

select_disbursed(pan_value, value, store, append_fails) ==
    IF value = <<>> THEN Evaluated(TRUE, <<>>, store)
    ELSE IF ~store.disbursed.present THEN Evaluated(TRUE, <<>>, store)
    ELSE join_and_classify(
             pan_value,
             SelectSeq(store.disbursed.rows,
                       LAMBDA row : pan_matches(row, value)),
             store, append_fails)

evaluate_payment_status_for_conn(pan_value, store, append_fails) ==
    select_disbursed(pan_value, Strip(pan_value), store, append_fails)

-----------------------------------------------------------------------------
(* Federated Query Router                                                  *)

\* list_product_dbs(): the store files of the directory, in the order the
\* directory listing yields them
list_product_dbs(st) ==
    LET found == {p \in Products : st[p].exists}
    IN  {order \in [1..Cardinality(found) -> found] :
           \A i, j \in 1..Cardinality(found) : order[i] = order[j] => i = j}

tag_product(rows, product_name) ==
    [i \in 1..Len(rows) |->
       [pan |-> rows[i].pan, LeadID |-> rows[i].LeadID,
        RepayDate |-> rows[i].RepayDate,
        CollectionDate |-> rows[i].CollectionDate,
        PaymentStatus |-> rows[i].PaymentStatus, Product |-> product_name]]

Federated(st, all_rows, raised, batch, opened, closed) ==
    [stores |-> st, all_rows |-> all_rows, raised |-> raised, batch |-> batch,
     opened |-> opened, closed |-> closed]

\* faulty variant: an error of one store discards what was collected
skip_store_discarding(acc, product_name) ==
    [acc EXCEPT !.raised = @ \cup {product_name},
                !.all_rows = <<>>,
                !.opened = Append(@, product_name),
                !.closed = Append(@, product_name)]

\* the handler of an exception raised by one store's evaluation: the store
\* is skipped and the loop goes on
skip_store(acc, product_name) ==
    [acc EXCEPT !.raised = @ \cup {product_name},
                !.opened = Append(@, product_name),
                !.closed = Append(@, product_name)]

\* one pass of the loop body: the store's batch is tagged and collected,
\* or the store is skipped; the connection is closed either way
collect(acc, product_name, result) ==
    IF result.raised THEN skip_store(acc, product_name)
    ELSE [acc EXCEPT
            !.stores[product_name] = result.store,
            !.batch[product_name] = result.rows,
            !.all_rows = @ \o tag_product(result.rows, product_name),
            !.opened = Append(@, product_name),
            !.closed = Append(@, product_name)]

\* the loop over db_paths of evaluate_payment_across_all_products
RECURSIVE for_each_db(_, _, _, _, _)
for_each_db(pan_value, order, i, io_fail, acc) ==
    IF i > Len(order) THEN acc
    ELSE for_each_db(pan_value, order, i + 1, io_fail,
                     collect(acc, order[i],
                             evaluate_payment_status_for_conn(
                                 pan_value, acc.stores[order[i]],
                                 order[i] \in io_fail)))

show_evaluation(pan_value, order, r) ==
    /\ \A p \in Products : Len(r.stores[p].queries.rows) <= MaxQueries
    /\ stores' = r.stores
    /\ last' = [NoCall EXCEPT
                  !.op = "evaluate", !.token = pan_value, !.outcome = "ok",
                  !.listed = TRUE, !.order = order, !.opened = r.opened,
                  !.closed = r.closed, !.raised = r.raised,
                  !.batch = r.batch, !.table = r.all_rows,
                  !.total = Len(r.all_rows)]
    /\ UNCHANGED <<CASE_SENSITIVE, cls, rd>>

\* evaluate_payment_across_all_products(pan_value)
\* faulty variant: the token is not checked before the stores are listed
evaluate_unchecked(pan_value) ==
    \E order \in list_product_dbs(stores), io_fail \in SUBSET Products :
        show_evaluation(
            pan_value, order,
            for_each_db(pan_value, order, 1, io_fail,
                        Federated(stores, <<>>, {}, NoCall.batch,
                                  <<>>, <<>>)))

\* order: what list_product_dbs() returns; io_fail: the stores whose
\* storage engine raises on the append to `queries`
evaluate_payment_across_all_products(pan_value) ==
    IF Strip(pan_value) = <<>>
    THEN /\ last' = [NoCall EXCEPT !.op = "evaluate", !.token = pan_value,
                                   !.outcome = "EmptyIdentityToken"]
         /\ UNCHANGED <<stores, CASE_SENSITIVE, cls, rd>>
    ELSE \E order \in list_product_dbs(stores), io_fail \in SUBSET Products :
            show_evaluation(
                pan_value, order,
                for_each_db(pan_value, order, 1, io_fail,
                            Federated(stores, <<>>, {}, NoCall.batch,
                                      <<>>, <<>>)))

MEMORY == <<":memory:">>

\* the try block of run_sql_query: the session is opened, the stores are
\* attached, the query runs; conn.close() follows the query inside the try
run_session(attach_ok, sql_ok) ==
    IF attach_ok /\ sql_ok
    THEN [NoCall EXCEPT !.op = "sql", !.outcome = "ok", !.listed = TRUE,
                        !.opened = <<MEMORY>>, !.closed = <<MEMORY>>]
    ELSE [NoCall EXCEPT !.op = "sql", !.outcome = "SqlError",
                        !.listed = attach_ok, !.opened = <<MEMORY>>]

\* PaymentApp.run_sql_query for a read query: attach_ok and sql_ok are the
\* verdicts of the SQL engine on the ATTACH statements and on the query.
run_sql_query(raw_query) ==
    /\ IF Strip(raw_query) = <<>>
       THEN last' = [NoCall EXCEPT !.op = "sql", !.outcome = "InvalidQuery"]
       ELSE \E attach_ok \in BOOLEAN, sql_ok \in BOOLEAN :
               last' = run_session(attach_ok, sql_ok)
    /\ UNCHANGED <<stores, CASE_SENSITIVE, cls, rd>>

-----------------------------------------------------------------------------
(* Specification of the application                                        *)

Tokens ==
    {<<>>, <<" ", " ">>, <<" ", "p", "1", " ">>}

SqlTexts == {<<" ">>, <<"S", "E", "L", "E", "C", "T">>}

NoRow == [repay |-> NaT, collect |-> NaT, status |-> "none"]

NoRead ==
    [f |-> D_NOHDR, step |-> "none", sample |-> NoFrame, full |-> NoFrame,
     product |-> NoCode]

Init ==
    /\ stores = [p \in Products |-> NoStore]
    /\ last = NoCall
    /\ CASE_SENSITIVE \in BOOLEAN
    /\ cls = NoRow
    /\ rd = NoRead

\* a storage fault can only strike an ingest that gets as far as the store
reaches_store(d, c) ==
    process_uploaded_files(d, c, "connect", "old", stores).outcome
        = "StoreIOError"

DoIngest ==
    \E u \in Uploads :
        \E f \in IF reaches_store(u[1], u[2]) THEN FaultChoices
                  ELSE {<<"none", "old">>} :
            process_files(u[1], u[2], f[1], f[2])

DoEvaluate ==
    \E pan_value \in Tokens : evaluate_payment_across_all_products(pan_value)

DoSql ==
    \E raw_query \in SqlTexts : run_sql_query(raw_query)

Next == DoIngest \/ DoEvaluate \/ DoSql

Spec == Init /\ [][Next]_vars

-----------------------------------------------------------------------------
(* Specification of the classification alone: every pair of a repayment    *)
(* timestamp and a latest collection timestamp, NaT included.              *)

Timestamps == 0..(MaxDay * TicksPerDay - 1)

InitClassify ==
    /\ stores = [p \in Products |-> NoStore]
    /\ last = NoCall
    /\ CASE_SENSITIVE = TRUE
    /\ cls \in [repay : Timestamps \cup {NaT},
                collect : Timestamps \cup {NaT}, status : {"none"}]
    /\ rd = NoRead

classify_row ==
    /\ cls.status = "none"
    /\ cls' = [cls EXCEPT !.status = PaymentStatus(cls.repay, cls.collect)]
    /\ UNCHANGED <<stores, last, CASE_SENSITIVE, rd>>

NextClassify == classify_row

SpecClassify == InitClassify /\ [][NextClassify]_vars

-----------------------------------------------------------------------------
(* Specification of the two readers and the product derivation alone: a    *)
(* family of disbursement files that differ in where the header line is,   *)
(* in how many rows carry a loan number too short for a product code       *)
(* before the first one long enough, and in where a malformed row is.      *)

HeaderLines == {-1, 0, 2, 4, 10, 11}

HeaderCells == {DisbursedHeader, <<<<"Pancard">>, <<"Lead", " ", "ID">>>>}

ShortCounts == {0, 1, SAMPLE_ROWS - 1, SAMPLE_ROWS}

ShortRow == DRow(P1, <<"a", "b", " ">>, L1, DateCell(3, 0))

LongRow == DRow(P1, <<" ", "b", "b", "b", "7">>, L2, DateCell(3, 0))

BadLines == {0, 1, SAMPLE_ROWS, SAMPLE_ROWS + 1}

\* a malformed row is one of the data rows; when the header is the first
\* line of the file, a row with more fields than the header makes the file
\* ragged
FileShapes ==
    {t \in HeaderLines \X HeaderCells \X ShortCounts \X (0..MaxBeyond)
            \X BadLines \X BOOLEAN :
       /\ t[5] <= t[3] + t[4]
       /\ (t[5] > 0 /\ t[1] = 0) => t[6]}

Files ==
    {File("f", t[1], IF t[1] < 0 THEN <<>> ELSE t[2],
          Repeat(ShortRow, t[3]) \o Repeat(LongRow, t[4]), t[5], t[6]) :
       t \in FileShapes}

InitFiles ==
    /\ stores = [p \in Products |-> NoStore]
    /\ last = NoCall
    /\ CASE_SENSITIVE = TRUE
    /\ cls = NoRow
    /\ rd \in {[NoRead EXCEPT !.f = f] : f \in Files}

\* the sample read and the full read of the same file
read_both ==
    /\ rd.step = "none"
    /\ rd' = [rd EXCEPT !.step = "read",
                        !.sample = read_csv_flexible(rd.f),
                        !.full = read_full_csv_flexible(rd.f)]
    /\ UNCHANGED <<stores, last, CASE_SENSITIVE, cls>>

\* process_uploaded_files derives the product from the sample
derive_product ==
    /\ rd.step = "read"
    /\ rd.sample.ok
    /\ validate_columns(rd.sample, REQUIRED_DISBURSED_COLS) = {}
    /\ rd' = [rd EXCEPT !.step = "derived",
                        !.product = get_first_product(rd.sample.rows)]
    /\ UNCHANGED <<stores, last, CASE_SENSITIVE, cls>>

NextFiles == read_both \/ derive_product

SpecFiles == InitFiles /\ [][NextFiles]_vars

-----------------------------------------------------------------------------
(* Properties                                                              *)

Range(seq) == {seq[i] : i \in 1..Len(seq)}

IsPrefix(a, b) == Len(a) <= Len(b) /\ SubSeq(b, 1, Len(a)) = a

NoDuplicates(rows) ==
    \A i, j \in 1..Len(rows) : rows[i] = rows[j] => i = j

IngestOk(call) == call.op = "ingest" /\ call.outcome = "ok"

\* C1: a successful ingest keeps every row that the product's disbursed and
\* collection tables held before it.
C1_IngestRetainsRows ==
    [][IngestOk(last') =>
         /\ Range(stores[last'.product].disbursed.rows)
              \subseteq Range(stores'[last'.product].disbursed.rows)
         /\ Range(stores[last'.product].collection.rows)
              \subseteq Range(stores'[last'.product].collection.rows)]_vars

\* C2: after a successful ingest neither table of the product holds two rows
\* that are equal on every column.
C2_NoDuplicateRows ==
    IngestOk(last) =>
        /\ NoDuplicates(stores[last.product].disbursed.rows)
        /\ NoDuplicates(stores[last.product].collection.rows)

\* C3: ingesting again the pair that was ingested last leaves the row counts
\* of the product's disbursed and collection tables as the first ingest left
\* them.
C3_ReingestKeepsRowCounts ==
    [][(IngestOk(last) /\ IngestOk(last') /\ last'.files = last.files) =>
         /\ Len(stores'[last'.product].disbursed.rows)
              = Len(stores[last.product].disbursed.rows)
         /\ Len(stores'[last'.product].collection.rows)
              = Len(stores[last.product].collection.rows)]_vars

\* a pair has been ingested a second time in a row
C3_Witness ==
    /\ IngestOk(last)
    /\ last.nth >= 2
    /\ stores[last.product].disbursed.rows # <<>>

\* C4: two differing derived codes make the ingest fail with the mismatch
\* error, which carries both codes; no store is created, opened or modified.
C4_MismatchTouchesNoStore ==
    [][last'.op = "ingest" =>
         /\ (Len(last'.codes) = 2 /\ last'.codes[1] # last'.codes[2])
              <=> last'.outcome = "ProductMismatch"
         /\ last'.outcome = "ProductMismatch" =>
              /\ stores' = stores
              /\ last'.opened = <<>>
              /\ last'.codes[1] \in Products /\ last'.codes[2] \in Products]_vars

\* a mismatch was reported and the first code's store does not exist yet
\* while another product's store holds data
C4_Witness ==
    /\ last.op = "ingest" /\ last.outcome = "ProductMismatch"
    /\ ~stores[last.codes[1]].exists
    /\ stores[last.codes[2]].disbursed.rows # <<>>

\* C5: an ingest that fails leaves every store, and the set of store files,
\* exactly as before the call.
C5_FailedIngestLeavesStores ==
    [][(last'.op = "ingest" /\ last'.outcome # "ok") => stores' = stores]_vars

\* The claimed status of a joined row, dates taken as calendar dates.
ClaimedStatus(repay_day, collect_date) ==
    IF collect_date = NaT THEN "NOT_COLLECTED"
    ELSE IF date(collect_date) < repay_day THEN "EARLY"
    ELSE IF date(collect_date) = repay_day THEN "ON_TIME"
    ELSE IF date(collect_date) - repay_day <= 3 THEN "COOLING_PERIOD"
    ELSE "LATE"

\* C6: with a non-null repayment date R and latest collection date C the
\* status is NOT_COLLECTED for a null C, EARLY for C < R, ON_TIME for C = R,
\* COOLING_PERIOD for 1 <= C - R <= 3 days and LATE for C - R >= 4 days.
C6_StatusByDayDifference ==
    (cls.status # "none" /\ cls.repay # NaT) =>
        cls.status = ClaimedStatus(date(cls.repay), cls.collect)

\* C7: a blank token fails with the empty-token error; the directory is not
\* listed, no connection is opened and no store changes.
C7_BlankTokenTouchesNothing ==
    [][(last'.op = "evaluate" /\ Strip(last'.token) = <<>>) =>
         /\ last'.outcome = "EmptyIdentityToken"
         /\ ~last'.listed
         /\ last'.opened = <<>>
         /\ stores' = stores]_vars

\* a whitespace-only token was rejected while a store with a queries table
\* was there to be touched
C7_Witness ==
    /\ last.op = "evaluate" /\ last.outcome = "EmptyIdentityToken"
    /\ last.token # <<>>
    /\ \E p \in Products : stores[p].queries.present

PositionIn(order, p) == CHOOSE i \in 1..Len(order) : order[i] = p

Untagged(row) ==
    [pan |-> row.pan, LeadID |-> row.LeadID, RepayDate |-> row.RepayDate,
     CollectionDate |-> row.CollectionDate,
     PaymentStatus |-> row.PaymentStatus]

RowsOf(table, p) ==
    SelectSeq(table, LAMBDA row : row.Product = p)

RECURSIVE SumLen(_, _)
SumLen(batch, S) ==
    IF S = {} THEN 0
    ELSE LET p == CHOOSE q \in S : TRUE
         IN  Len(batch[p]) + SumLen(batch, S \ {p})

\* C8: for a non-blank token the federated evaluation succeeds whatever
\* stores raise; the combined table is the batches of the stores that did
\* not raise, each contiguous, tagged with its store's code, in discovery
\* order, and total_records is the sum of their sizes.
C8_FederatedResult ==
    (last.op = "evaluate" /\ Strip(last.token) # <<>>) =>
        /\ last.outcome = "ok"
        /\ \A i \in 1..Len(last.table) :
              last.table[i].Product \in Range(last.order) \ last.raised
        /\ \A i, j \in 1..Len(last.table) :
              i < j => PositionIn(last.order, last.table[i].Product)
                         <= PositionIn(last.order, last.table[j].Product)
        /\ \A p \in Range(last.order) \ last.raised :
              /\ Len(RowsOf(last.table, p)) = Len(last.batch[p])
              /\ \A i \in 1..Len(last.batch[p]) :
                    Untagged(RowsOf(last.table, p)[i]) = last.batch[p][i]
        /\ \A p \in last.raised : last.batch[p] = <<>>
        /\ last.total = SumLen(last.batch, Range(last.order) \ last.raised)
        /\ last.total = Len(last.table)

\* one store raised and was skipped while another contributed its batch
C8_Witness ==
    /\ last.op = "evaluate" /\ last.outcome = "ok"
    /\ last.raised # {}
    /\ last.table # <<>>

\* C9: no step removes or changes a row of a queries table; an ingest
\* leaves the table as it is; an evaluation appends exactly its result rows
\* and leaves the table untouched (not even created) when it has none.
C9_QueriesAppendOnly ==
    [][\A p \in Products :
         /\ IsPrefix(stores[p].queries.rows, stores'[p].queries.rows)
         /\ stores[p].queries.present => stores'[p].queries.present
         /\ last'.op = "ingest" => stores'[p].queries = stores[p].queries
         /\ last'.op = "evaluate" =>
              /\ stores'[p].queries.rows
                   = stores[p].queries.rows \o last'.batch[p]
              /\ last'.batch[p] = <<>> =>
                   stores'[p].queries = stores[p].queries]_vars

\* an evaluation appended its rows behind rows of an earlier evaluation
C9_Witness ==
    /\ last.op = "evaluate"
    /\ \E p \in Products :
          /\ last.batch[p] # <<>>
          /\ Len(stores[p].queries.rows) > Len(last.batch[p])

\* C10: every session of the federated query and every per-store connection
\* of the federated evaluation is closed when the call returns.
C10_ConnectionsReleased ==
    last.op \in {"sql", "evaluate"} => last.closed = last.opened

\* the first row, over the whole table, whose trimmed loan number has at
\* least three characters
Qualifying(rows) ==
    {i \in 1..Len(rows) : Len(Strip(rows[i].LoanNo)) >= 3}

FirstQualifying(rows) ==
    CHOOSE i \in Qualifying(rows) : \A j \in Qualifying(rows) : i <= j

ClaimedProduct(rows) ==
    IF Qualifying(rows) = {} THEN NoCode
    ELSE Upper(SubSeq(Strip(rows[FirstQualifying(rows)].LoanNo), 1, 3))

\* C11: the sample read and the full read of a file both fail or both
\* succeed, and when they succeed they yield the same normalized columns.
C11_ReadersAgree ==
    rd.step # "none" =>
        /\ rd.sample.ok = rd.full.ok
        /\ rd.sample.ok => rd.sample.cols = rd.full.cols

\* C12: the product code derived during ingest is the uppercased first three
\* characters of the first loan number, over the whole table, of trimmed
\* length >= 3; the derivation fails only when the table has no such value.
C12_ProductOfWholeTable ==
    rd.step = "derived" => rd.product = ClaimedProduct(rd.f.rows)

\* the disbursed rows of store p that the token of the latest call selects
Matching(p) ==
    SelectSeq(stores[p].disbursed.rows,
              LAMBDA row : pan_matches(row, Strip(last.token)))

\* the calendar dates of the collection rows of store p that carry the lead
\* identifier and a parsable date; a null identifier is shared by no row
DatesOf(p, lead) ==
    {date(to_datetime(stores[p].collection.rows[j].CollectedDate)) :
       j \in {k \in 1..Len(stores[p].collection.rows) :
                /\ lead # <<>>
                /\ stores[p].collection.rows[k].LeadID = lead
                /\ stores[p].collection.rows[k].CollectedDate.ok}}

Evaluation(call) == call.op = "evaluate" /\ call.outcome = "ok"

\* C13: a store's evaluation returns one result row per matching disbursed
\* row, in order, so its record count is the number of matching rows; each
\* row's collection date is the latest parsable date among the collection
\* rows of its lead, and null when there is none.
C13_OneRowPerMatch ==
    Evaluation(last) =>
        \A p \in Range(last.order) \ last.raised :
            /\ Len(last.batch[p]) = Len(Matching(p))
            /\ \A i \in 1..Len(last.batch[p]) :
                  /\ last.batch[p][i].LeadID = Matching(p)[i].LeadID
                  /\ IF DatesOf(p, Matching(p)[i].LeadID) = {}
                     THEN last.batch[p][i].CollectionDate = NoDate
                     ELSE /\ last.batch[p][i].CollectionDate
                               \in DatesOf(p, Matching(p)[i].LeadID)
                          /\ \A d \in DatesOf(p, Matching(p)[i].LeadID) :
                                d <= last.batch[p][i].CollectionDate

\* two matching rows were returned for a lead with collection rows of two
\* different dates, by a store that holds more rows than match
C13_Witness ==
    /\ Evaluation(last)
    /\ \E p \in Range(last.order) \ last.raised :
          /\ \E i \in 1..Len(last.batch[p]) :
                Cardinality(DatesOf(p, last.batch[p][i].LeadID)) >= 2
          /\ \E q \in Range(last.order) \ last.raised :
                /\ last.batch[q] # <<>>
                /\ Len(last.batch[q]) < Len(stores[q].disbursed.rows)

\* C14: a matching disbursed row whose repayment date is null or unparsable
\* still yields its result row, with a null RepayDate and the status
\* NOT_COLLECTED when the collection date is null and LATE otherwise.
C14_UnparsableRepayDate ==
    Evaluation(last) =>
        \A p \in Range(last.order) \ last.raised :
            \A i \in 1..Len(Matching(p)) :
                ~Matching(p)[i].RepayDate.ok =>
                    /\ i <= Len(last.batch[p])
                    /\ last.batch[p][i].LeadID = Matching(p)[i].LeadID
                    /\ last.batch[p][i].RepayDate = NoDate
                    /\ last.batch[p][i].PaymentStatus =
                          IF last.batch[p][i].CollectionDate = NoDate
                          THEN "NOT_COLLECTED" ELSE "LATE"

\* one call returned a row without repayment date that is LATE and one that
\* is NOT_COLLECTED
C14_Witness ==
    /\ Evaluation(last)
    /\ \E i \in 1..Len(last.table) :
          /\ last.table[i].RepayDate = NoDate
          /\ last.table[i].PaymentStatus = "LATE"
    /\ \E i \in 1..Len(last.table) :
          /\ last.table[i].RepayDate = NoDate
          /\ last.table[i].PaymentStatus = "NOT_COLLECTED"

====
